---- MODULE Spec2Model ----
(***************************************************************************)
(* Web3ExternalProvider (packages/web3-rpc-providers/src/web3_provider.ts) *)
(* as a state machine: the constructor, request and the delegating         *)
(* methods of the facade, together with the owned transport provider as    *)
(* the facade sees it (the calls it receives, how each request call ends,  *)
(* the listeners it holds).                                                *)
(***************************************************************************)
EXTENDS Integers, Sequences, FiniteSets, TLC

(* ------------------------------- bounds -------------------------------- *)
\* request() calls started on one facade, when request is studied alone
MaxCalls == 2
\* listeners registered on the provider at one time, when events are studied alone
MaxListeners == 2
\* request() calls started plus listeners registered, when every operation of
\* the facade is interleaved
MaxInUse == 1

(* --------------------------- values of the types ----------------------- *)
HTTPS == "HTTPS"
WebSocket == "WebSocket"
\* "IPC" stands for a value outside the Transport enum
Transports == {HTTPS, WebSocket, "IPC"}
Networks == {"ETH_MAINNET", "ETH_SEPOLIA"}
Tokens == {"token"}
Hosts == {"host"}
Payloads == {"eth_blockNumber", "eth_chainId"}
Undefined == "undefined"
RequestInits == {Undefined, "init"}
\* the code field of an error the provider raises; 0 is an error without code
NoCode == 0
RateLimitCode == 429
ErrorCodes == {RateLimitCode, 500, NoCode}
Events == {"connect", "accountsChanged"}
Callbacks == {"cb1", "cb2"}
EmitArgs == {"0x1", "0x2"}
DisconnectCodes == {Undefined, "1000"}
DisconnectData == {Undefined, "bye"}
Statuses == {"connecting", "connected", "disconnected"}

NoProvider == [kind |-> "undefined", url |-> <<>>]

\* members of Web3BaseProvider every provider has, and the ones the facade
\* tests for before it forwards
RequiredOps == {"request", "getStatus", "supportsSubscriptions"}
EventOps == {"on", "once", "removeListener", "removeAllListeners"}
LifecycleOps == {"connect", "disconnect", "reset"}
OptionalOps == EventOps \cup LifecycleOps

VARIABLES
    pc,            \* "new" before the constructor ran, "ready" after
    ctor,          \* the constructor's arguments
    providerOps,   \* the optional members the provider class implements
    transport,     \* this.transport
    provider,      \* this.provider
    created,       \* every provider instantiated so far
    urlCalls,      \* every call of getRPCURL so far
    nCalls,        \* request() calls started
    nProv,         \* request calls the provider received
    anyFailure,    \* some provider request call threw or rejected
    pending,       \* request() calls whose promise is not settled
    last,          \* the facade call that completed last
    listeners,     \* the provider's listeners, per event name
    direct,        \* listeners of a provider driven without the facade
    directLast     \* what that provider delivered at the last emission

vars == <<pc, ctor, providerOps, transport, provider, created, urlCalls,
          nCalls, nProv, anyFailure, pending, last, listeners, direct, directLast>>

ctorVars == <<pc, ctor, providerOps, transport, provider, created, urlCalls>>
requestVars == <<nCalls, nProv, anyFailure, pending>>
eventVars == <<listeners, direct, directLast>>

(* ------------------------------ outcomes ------------------------------- *)
Outcome(state, kind, code, uid) ==
    [state |-> state, kind |-> kind, code |-> code, uid |-> uid]
Returned == Outcome("returned", "void", NoCode, 0)
ReturnedValue(v) == Outcome("returned", v, NoCode, 0)
ThrewTypeError == Outcome("threw", "TypeError", NoCode, 0)
PendingOn(uid) == Outcome("pending", "none", NoCode, uid)
Fulfilled(uid) == Outcome("fulfilled", "result", NoCode, uid)
RejectedProviderError(code, uid) == Outcome("rejected", "ProviderError", code, uid)
RejectedRateLimit == Outcome("rejected", "QuickNodeRateLimitError", NoCode, 0)
RejectedTypeError == Outcome("rejected", "TypeError", NoCode, 0)

\* one call received by the provider
ProviderCall(op, args, uid, state, code) ==
    [op |-> op, args |-> args, uid |-> uid, state |-> state, code |-> code]

FacadeCall(op, id, args, forwarded, outcome) ==
    [op |-> op, id |-> id, args |-> args, forwarded |-> forwarded, outcome |-> outcome]

NoCall == FacadeCall("none", 0, <<>>, <<>>, Returned)

(* ----------------------------- constructor ----------------------------- *)
getRPCURL(network, t, token, host) == <<network, t, token, host>>

constructorBody_httpForBoth(c) ==
    IF c.transport \in {HTTPS, WebSocket} THEN
        LET url == getRPCURL(c.network, c.transport, c.token, c.host) IN
        [transport |-> c.transport,
         provider |-> [kind |-> "HttpProvider", url |-> url],
         created |-> <<[kind |-> "HttpProvider", url |-> url]>>,
         urlCalls |-> <<c>>]
    ELSE
        [transport |-> c.transport, provider |-> NoProvider,
         created |-> <<>>, urlCalls |-> <<>>]

constructorBody(c) ==
    IF c.transport = HTTPS THEN
        LET url == getRPCURL(c.network, c.transport, c.token, c.host) IN
        [transport |-> c.transport,
         provider |-> [kind |-> "HttpProvider", url |-> url],
         created |-> <<[kind |-> "HttpProvider", url |-> url]>>,
         urlCalls |-> <<c>>]
    ELSE IF c.transport = WebSocket THEN
        LET url == getRPCURL(c.network, c.transport, c.token, c.host) IN
        [transport |-> c.transport,
         provider |-> [kind |-> "WebSocketProvider", url |-> url],
         created |-> <<[kind |-> "WebSocketProvider", url |-> url]>>,
         urlCalls |-> <<c>>]
    ELSE
        [transport |-> c.transport, provider |-> NoProvider,
         created |-> <<>>, urlCalls |-> <<>>]

InitWith(opChoices) ==
    /\ pc = "new"
    /\ ctor \in [network : Networks, transport : Transports, token : Tokens, host : Hosts]
    /\ providerOps \in IF ctor.transport \in {HTTPS, WebSocket} THEN opChoices ELSE {{}}
    /\ transport = Undefined
    /\ provider = NoProvider
    /\ created = <<>>
    /\ urlCalls = <<>>
    /\ nCalls = 0
    /\ nProv = 0
    /\ anyFailure = FALSE
    /\ pending = {}
    /\ last = NoCall
    /\ listeners = [e \in Events |-> <<>>]
    /\ direct = [e \in Events |-> <<>>]
    /\ directLast = <<>>

constructor ==
    /\ pc = "new"
    /\ pc' = "ready"
    /\ LET r == constructorBody(ctor) IN
        /\ transport' = r.transport
        /\ provider' = r.provider
        /\ created' = r.created
        /\ urlCalls' = r.urlCalls
    /\ last' = FacadeCall("constructor", 0, <<>>, <<>>, Returned)
    /\ UNCHANGED <<ctor, providerOps, requestVars, eventVars>>

(* ------------------------------- request ------------------------------- *)
\* What the provider does when its request is called: it throws at once with
\* an error code, or it returns a promise that settles later.
Behaviours == {[throws |-> TRUE, code |-> c] : c \in ErrorCodes}
                  \cup {[throws |-> FALSE, code |-> NoCode]}

\* this.provider.request(...args): dereferencing a missing provider throws a
\* TypeError and no provider is called.
Invoke(prov, args, b, uid) ==
    IF prov = NoProvider THEN
        [calls |-> <<>>, threw |-> TRUE, code |-> NoCode, out |-> RejectedTypeError]
    ELSE IF b.throws THEN
        [calls |-> <<ProviderCall("request", args, uid, "thrown", b.code)>>,
         threw |-> TRUE, code |-> b.code,
         out |-> RejectedProviderError(b.code, uid)]
    ELSE
        [calls |-> <<ProviderCall("request", args, uid, "pending", NoCode)>>,
         threw |-> FALSE, code |-> NoCode, out |-> PendingOn(uid)]

\* The body of request(): b1 and b2 are the provider's behaviour at the first
\* and (if made) second call, uid0 the number of calls it received before.
\* isHttp is the test of line 74, returnsFirst says that line 76 returns the
\* provider's promise, wsArgs are the arguments of the call of line 87.
requestImpl(isHttp, returnsFirst, wsArgs, prov, payload, requestOptions, b1, b2, uid0) ==
    LET ws(n, b, before) ==
            LET c == Invoke(prov, wsArgs, b, n) IN
            [forwarded |-> before \o c.calls, outcome |-> c.out]
    IN
    IF isHttp THEN
        LET c1 == Invoke(prov, <<payload, requestOptions>>, b1, uid0 + 1) IN
        IF ~c1.threw /\ returnsFirst THEN [forwarded |-> c1.calls, outcome |-> c1.out]
        ELSE IF c1.threw /\ c1.code # NoCode /\ c1.code = RateLimitCode
            THEN [forwarded |-> c1.calls, outcome |-> RejectedRateLimit]
        ELSE ws(uid0 + Len(c1.calls) + 1, b2, c1.calls)
    ELSE ws(uid0 + 1, b1, <<>>)

requestBody_forwardsOptions(t, prov, payload, requestOptions, b1, b2, uid0) ==
    requestImpl(t = HTTPS, TRUE, <<payload, requestOptions>>,
                prov, payload, requestOptions, b1, b2, uid0)

requestBody_anyTransport(t, prov, payload, requestOptions, b1, b2, uid0) ==
    requestImpl(TRUE, TRUE, <<payload>>, prov, payload, requestOptions, b1, b2, uid0)

requestBody_noReturn(t, prov, payload, requestOptions, b1, b2, uid0) ==
    requestImpl(t = HTTPS, FALSE, <<payload>>, prov, payload, requestOptions, b1, b2, uid0)

requestBody(t, prov, payload, requestOptions, b1, b2, uid0) ==
    requestImpl(t = HTTPS, TRUE, <<payload>>, prov, payload, requestOptions, b1, b2, uid0)

Failed(calls) == \E i \in 1..Len(calls) : calls[i].state \in {"thrown", "rejected"}

request(limit) ==
    /\ pc = "ready"
    /\ nCalls < limit
    /\ \E payload \in Payloads, requestOptions \in RequestInits, b1, b2 \in Behaviours :
        LET r == requestBody(transport, provider, payload, requestOptions, b1, b2, nProv)
            call == FacadeCall("request", nCalls + 1, <<payload, requestOptions>>,
                               r.forwarded, r.outcome)
        IN
        /\ nCalls' = nCalls + 1
        /\ nProv' = nProv + Len(r.forwarded)
        /\ anyFailure' = (anyFailure \/ Failed(r.forwarded))
        /\ IF r.outcome.state = "pending"
             THEN pending' = pending \cup {call} /\ last' = last
             ELSE pending' = pending /\ last' = call
    /\ UNCHANGED <<ctorVars, eventVars>>

\* The promise request() returned follows the provider's promise: the async
\* function returned it without awaiting it.
settledOutcome(call, ok, code) ==
    LET uid == call.outcome.uid IN
    IF ok THEN Fulfilled(uid) ELSE RejectedProviderError(code, uid)

settledCalls(call, ok, code) ==
    [i \in 1..Len(call.forwarded) |->
        IF call.forwarded[i].uid = call.outcome.uid
        THEN ProviderCall("request", call.forwarded[i].args, call.forwarded[i].uid,
                          IF ok THEN "fulfilled" ELSE "rejected",
                          IF ok THEN NoCode ELSE code)
        ELSE call.forwarded[i]]

settle ==
    /\ \E call \in pending, ok \in BOOLEAN, code \in ErrorCodes :
        /\ ok => code = NoCode
        /\ pending' = pending \ {call}
        /\ last' = FacadeCall("request", call.id, call.args,
                              settledCalls(call, ok, code),
                              settledOutcome(call, ok, code))
        /\ anyFailure' = (anyFailure \/ ~ok)
    /\ UNCHANGED <<ctorVars, eventVars, nCalls, nProv>>

(* ------------------------- delegating methods -------------------------- *)
HasOp(op) == provider # NoProvider /\ op \in (providerOps \cup RequiredOps)

\* One delegating method: when its guard passes it calls this.provider.<pop>
\* with pargs, which throws a TypeError if the provider or the member is
\* missing; when the guard fails the method returns having done nothing.
Forward(op, guard, fargs, pop, pargs, value) ==
    IF ~guard THEN FacadeCall(op, 0, fargs, <<>>, Returned)
    ELSE IF ~HasOp(pop) THEN FacadeCall(op, 0, fargs, <<>>, ThrewTypeError)
    ELSE FacadeCall(op, 0, fargs,
                    <<ProviderCall(pop, pargs, 0, "returned", NoCode)>>, value)

getStatusBody(status) ==
    Forward("getStatus", TRUE, <<>>, "getStatus", <<>>, ReturnedValue(status))

supportsSubscriptionsBody(answer) ==
    Forward("supportsSubscriptions", TRUE, <<>>, "supportsSubscriptions", <<>>,
            ReturnedValue(answer))

onceBody_registersOn(type, listener) ==
    Forward("once", HasOp("once"), <<type, listener>>, "on", <<type, listener>>, Returned)

onceBody(type, listener) ==
    Forward("once", HasOp("once"), <<type, listener>>, "once", <<type, listener>>, Returned)

removeAllListenersBody(type) ==
    Forward("removeAllListeners", HasOp("removeAllListeners"), <<type>>,
            "removeAllListeners", <<type>>, Returned)

connectBody ==
    Forward("connect", HasOp("connect"), <<>>, "connect", <<>>, Returned)

disconnectBody_dropsData(code, data) ==
    Forward("disconnect", HasOp("disconnect"), <<code, data>>,
            "disconnect", <<code, Undefined>>, Returned)

disconnectBody(code, data) ==
    Forward("disconnect", HasOp("disconnect"), <<code, data>>,
            "disconnect", <<code, data>>, Returned)

resetBody ==
    Forward("reset", HasOp("reset"), <<>>, "reset", <<>>, Returned)

onBody_unguarded(type, listener) ==
    Forward("on", TRUE, <<type, listener>>, "on", <<type, listener>>, Returned)

onBody(type, listener) ==
    Forward("on", provider # NoProvider, <<type, listener>>,
            "on", <<type, listener>>, Returned)

removeListenerBody(type, listener) ==
    Forward("removeListener", provider # NoProvider, <<type, listener>>,
            "removeListener", <<type, listener>>, Returned)

(* ----------------------- the provider's listeners ---------------------- *)
Entry(fn, isOnce) == [fn |-> fn, once |-> isOnce]

RECURSIVE RemoveLast(_, _)
RemoveLast(seq, fn) ==
    IF seq = <<>> THEN <<>>
    ELSE IF seq[Len(seq)].fn = fn THEN SubSeq(seq, 1, Len(seq) - 1)
    ELSE Append(RemoveLast(SubSeq(seq, 1, Len(seq) - 1), fn), seq[Len(seq)])

\* the provider's event emitter handling one call it received
Emitter(ls, call) ==
    IF call.op = "on" THEN
        [ls EXCEPT ![call.args[1]] = Append(@, Entry(call.args[2], FALSE))]
    ELSE IF call.op = "once" THEN
        [ls EXCEPT ![call.args[1]] = Append(@, Entry(call.args[2], TRUE))]
    ELSE IF call.op = "removeListener" THEN
        [ls EXCEPT ![call.args[1]] = RemoveLast(@, call.args[2])]
    ELSE IF call.op = "removeAllListeners" THEN
        [ls EXCEPT ![call.args[1]] = <<>>]
    ELSE ls

RECURSIVE Received(_, _)
Received(ls, calls) ==
    IF calls = <<>> THEN ls ELSE Received(Emitter(ls, Head(calls)), Tail(calls))

\* the same method called on the provider itself, without the facade
Direct(ls, op, args) ==
    IF HasOp(op) THEN Emitter(ls, ProviderCall(op, args, 0, "returned", NoCode)) ELSE ls

\* an emission: every listener of the event is invoked with the emitted
\* argument, and the once-listeners are dropped
Deliveries(ls, type, arg) ==
    [i \in 1..Len(ls[type]) |-> ProviderCall(ls[type][i].fn, <<arg>>, 0, "returned", NoCode)]

RECURSIVE Persistent(_)
Persistent(seq) ==
    IF seq = <<>> THEN <<>>
    ELSE IF Head(seq).once THEN Persistent(Tail(seq))
    ELSE <<Head(seq)>> \o Persistent(Tail(seq))

AfterEmit(ls, type) == [ls EXCEPT ![type] = Persistent(@)]

RECURSIVE Sum(_, _)
Sum(f, S) ==
    IF S = {} THEN 0
    ELSE LET x == CHOOSE y \in S : TRUE IN Len(f[x]) + Sum(f, S \ {x})

Registered == Sum(listeners, Events)

(* ------------------------------- actions ------------------------------- *)
\* a completed synchronous facade call and what the provider did with the
\* calls it received
Completes(call, directOp) ==
    /\ last' = call
    /\ listeners' = Received(listeners, call.forwarded)
    /\ direct' = Direct(direct, directOp, call.args)
    /\ directLast' = <<>>
    /\ UNCHANGED <<ctorVars, requestVars>>

getStatus ==
    /\ pc = "ready"
    /\ \E status \in Statuses : Completes(getStatusBody(status), "getStatus")

supportsSubscriptions ==
    /\ pc = "ready"
    /\ \E answer \in {"true", "false"} :
        Completes(supportsSubscriptionsBody(answer), "supportsSubscriptions")

once(limit) ==
    /\ pc = "ready"
    /\ Registered < limit
    /\ \E type \in Events, listener \in Callbacks :
        Completes(onceBody(type, listener), "once")

removeAllListeners ==
    /\ pc = "ready"
    /\ \E type \in Events : Completes(removeAllListenersBody(type), "removeAllListeners")

connect ==
    /\ pc = "ready"
    /\ Completes(connectBody, "connect")

disconnect ==
    /\ pc = "ready"
    /\ \E code \in DisconnectCodes, data \in DisconnectData :
        Completes(disconnectBody(code, data), "disconnect")

reset ==
    /\ pc = "ready"
    /\ Completes(resetBody, "reset")

on(limit) ==
    /\ pc = "ready"
    /\ Registered < limit
    /\ \E type \in Events, listener \in Callbacks :
        Completes(onBody(type, listener), "on")

removeListener ==
    /\ pc = "ready"
    /\ \E type \in Events, listener \in Callbacks :
        Completes(removeListenerBody(type, listener), "removeListener")

\* the owned provider emits an event
emit ==
    /\ pc = "ready"
    /\ provider # NoProvider
    /\ \E type \in Events, arg \in EmitArgs :
        /\ last' = FacadeCall("emit", 0, <<type, arg>>,
                              Deliveries(listeners, type, arg), Returned)
        /\ listeners' = AfterEmit(listeners, type)
        /\ directLast' = Deliveries(direct, type, arg)
        /\ direct' = AfterEmit(direct, type)
    /\ UNCHANGED <<ctorVars, requestVars>>

(* ---------------------------- specifications --------------------------- *)
NextRequest == constructor \/ request(MaxCalls) \/ settle

SpecRequest == InitWith({OptionalOps}) /\ [][NextRequest]_vars

NextEvents ==
    \/ constructor
    \/ on(MaxListeners)
    \/ once(MaxListeners)
    \/ removeListener
    \/ removeAllListeners
    \/ emit

SpecEvents ==
    InitWith({LifecycleOps \cup S : S \in SUBSET EventOps}) /\ [][NextEvents]_vars

NextLifecycle ==
    \/ constructor
    \/ connect
    \/ disconnect
    \/ reset
    \/ getStatus
    \/ supportsSubscriptions

SpecLifecycle ==
    InitWith({EventOps \cup S : S \in SUBSET LifecycleOps}) /\ [][NextLifecycle]_vars

Next ==
    \/ constructor
    \/ request(MaxInUse - Registered)
    \/ settle
    \/ getStatus
    \/ supportsSubscriptions
    \/ on(MaxInUse - nCalls)
    \/ once(MaxInUse - nCalls)
    \/ removeListener
    \/ removeAllListeners
    \/ connect
    \/ disconnect
    \/ reset
    \/ emit

Spec == InitWith({OptionalOps, {}}) /\ [][Next]_vars

(* -------------------------------- claims ------------------------------- *)
\* every request() call the state still knows: the ones in flight and the
\* one that completed last
Requests == pending \cup (IF last.op = "request" THEN {last} ELSE {})

FailedCall(c) == c.state \in {"thrown", "rejected"}

\* how a promise that follows the provider call c stands
Follows(out, c) ==
    /\ out.uid = c.uid
    /\ c.state = "pending" => out = PendingOn(c.uid)
    /\ c.state = "fulfilled" => out = Fulfilled(c.uid)
    /\ FailedCall(c) => out = RejectedProviderError(c.code, c.uid)

\* C1: with transport HTTPS, whenever the provider's request fails with code
\* 429, by a throw or by a rejected promise, request() rejects with
\* QuickNodeRateLimitError and no second request call is made.
C1_RateLimitOnEvery429 ==
    transport = HTTPS =>
        \A r \in Requests :
            (Len(r.forwarded) >= 1 /\ FailedCall(r.forwarded[1])
                /\ r.forwarded[1].code = RateLimitCode)
            => (r.outcome = RejectedRateLimit /\ Len(r.forwarded) = 1)

\* C2: with transport HTTPS, whenever the provider's request fails with a code
\* other than 429, by a throw or by a rejected promise, request() makes a
\* second request call with the payload alone and ends as that call ends.
C2_FallThroughOnEveryOtherFailure ==
    transport = HTTPS =>
        \A r \in Requests :
            (Len(r.forwarded) >= 1 /\ FailedCall(r.forwarded[1])
                /\ r.forwarded[1].code # RateLimitCode)
            => /\ Len(r.forwarded) = 2
               /\ r.forwarded[2].args = <<r.args[1]>>
               /\ Follows(r.outcome, r.forwarded[2])

\* C3: with transport WebSocket, every request(payload, requestOptions) calls
\* the provider's request once with the payload as its only argument, and
\* the HTTPS branch (two arguments, the rate-limit error) is never taken.
C3_WebSocketPayloadOnly ==
    transport = WebSocket =>
        \A r \in Requests :
            /\ Len(r.forwarded) = 1
            /\ r.forwarded[1].op = "request"
            /\ r.forwarded[1].args = <<r.args[1]>>
            /\ r.outcome # RejectedRateLimit

C3_Witness ==
    /\ transport = WebSocket
    /\ last.op = "request"
    /\ last.args[2] # Undefined
    /\ last.outcome.state = "fulfilled"

\* C4: while no provider request has failed, the provider has received as
\* many request calls as request() was called; each request() call whose
\* provider call did not fail has exactly one provider call of its own,
\* issued when it was called however many others are in flight, and it
\* resolves with the result of that call.
C4_OneCallEach ==
    transport \in {HTTPS, WebSocket} =>
        /\ ~anyFailure => nProv = nCalls
        /\ \A r \in Requests :
            ~Failed(r.forwarded) =>
                /\ Len(r.forwarded) = 1
                /\ r.outcome.state \in {"pending", "fulfilled"}
                /\ Follows(r.outcome, r.forwarded[1])
                /\ \A q \in Requests :
                    q.id # r.id =>
                        \A i \in 1..Len(q.forwarded) : q.forwarded[i].uid # r.forwarded[1].uid

C4_Witness ==
    /\ ~anyFailure
    /\ last.op = "request"
    /\ last.id = 2
    /\ last.outcome.state = "fulfilled"
    /\ \E r \in pending : r.id = 1

\* C5: with transport WebSocket, a failure of the provider's request, code 429
\* included, reaches the caller as the provider raised it, after exactly one
\* provider call.
C5_WebSocketPassThrough ==
    transport = WebSocket =>
        \A r \in Requests :
            /\ Len(r.forwarded) = 1
            /\ FailedCall(r.forwarded[1])
                => r.outcome = RejectedProviderError(r.forwarded[1].code, r.forwarded[1].uid)

C5_Witness ==
    /\ transport = WebSocket
    /\ last.op = "request"
    /\ Len(last.forwarded) = 1
    /\ FailedCall(last.forwarded[1])
    /\ last.forwarded[1].code = RateLimitCode

DelegatingOps == RequiredOps \cup OptionalOps

UnknownTransport == pc = "ready" /\ ctor.transport \notin {HTTPS, WebSocket}

NothingInstantiated == provider = NoProvider /\ created = <<>> /\ urlCalls = <<>>

\* C6 as stated: with a transport that is neither HTTPS nor WebSocket no
\* provider is instantiated, getRPCURL is not called, and every delegating
\* call fails.
C6_EveryDelegatingCallFails ==
    UnknownTransport =>
        /\ NothingInstantiated
        /\ last.op \in DelegatingOps => last.outcome.state \in {"threw", "rejected"}

\* C6 as amended: with a transport that is neither HTTPS nor WebSocket no
\* provider is instantiated and getRPCURL is not called; request rejects and
\* getStatus and supportsSubscriptions throw a TypeError, while on, once,
\* removeListener, removeAllListeners, connect, disconnect and reset return
\* normally having called nothing.
C6_OnlyUnguardedCallsFail ==
    UnknownTransport =>
        /\ NothingInstantiated
        /\ pending = {}
        /\ last.op \in DelegatingOps => last.forwarded = <<>>
        /\ last.op = "request" => last.outcome = RejectedTypeError
        /\ last.op \in {"getStatus", "supportsSubscriptions"} => last.outcome = ThrewTypeError
        /\ last.op \in OptionalOps => last.outcome = Returned

C6_Witness == UnknownTransport /\ last.op = "on"

\* C7: on, once, removeListener and removeAllListeners each forward to the
\* provider's operation of the same name when the provider has it, and are
\* a no-op that raises nothing when the provider exists but lacks it.
C7_GuardedByOperation ==
    (pc = "ready" /\ provider # NoProvider /\ last.op \in EventOps) =>
        /\ last.outcome = Returned
        /\ last.forwarded =
            IF last.op \in providerOps
            THEN <<ProviderCall(last.op, last.args, 0, "returned", NoCode)>>
            ELSE <<>>

\* C8: after any sequence of operations on a facade built with HTTPS or
\* WebSocket, one provider has been instantiated, of the kind of the
\* transport and from the URL of the one getRPCURL call, and transport and
\* provider are what the constructor set.
C8_OneProviderNeverSwapped ==
    (pc = "ready" /\ ctor.transport \in {HTTPS, WebSocket}) =>
        /\ transport = ctor.transport
        /\ created = <<provider>>
        /\ provider.kind = (IF ctor.transport = HTTPS THEN "HttpProvider"
                                                        ELSE "WebSocketProvider")
        /\ provider.url = <<ctor.network, ctor.transport, ctor.token, ctor.host>>
        /\ urlCalls = <<ctor>>

C8_Witness ==
    /\ transport = WebSocket
    /\ last.op = "reset"
    /\ Len(last.forwarded) = 1
    /\ nCalls > 0

C10_LifecycleGuarded ==
    (pc = "ready" /\ last.op \in LifecycleOps) =>
        /\ last.outcome = Returned
        /\ last.forwarded =
            IF HasOp(last.op)
            THEN <<ProviderCall(last.op, last.args, 0, "returned", NoCode)>>
            ELSE <<>>

C10_Witness ==
    /\ last.op = "disconnect"
    /\ last.args = <<"1000", "bye">>
    /\ provider # NoProvider
    /\ "disconnect" \notin providerOps

====
